---- MODULE Spec2Model ----
(***************************************************************************)
(* Model of the Z-Anatomy export pipeline (export_torso, V11.0, bilateral  *)
(* mirroring) of scripts/python/export_anatomy.py.                         *)
(*                                                                         *)
(* Strings are modelled as sequences of one-character strings, so that the *)
(* string operations of the code (lower, endswith, replace, strip) are     *)
(* computed and not assumed.  Positions are integer 3-vectors in units of  *)
(* 1e-5 scene units; matrices are represented by their translation.        *)
(***************************************************************************)
EXTENDS Integers, Sequences, FiniteSets, TLC

VARIABLES
    pc,                     \* position of export_torso
    registry_exists,        \* os.path.exists(REGISTRY_PATH)
    registry,               \* content of the registry file (regions in file order)
    scene,                  \* bpy.data.objects before the run (iteration order)
    faults,                 \* per scene object, the operator call the host rejects
    drift,                  \* displacement of the evaluated world matrix of parented nodes
    all_structure_names,    \* dict name -> region, insertion order
    bilateral_pairs,        \* dict base -> {left, right, region}, insertion order
    export_structure_names, \* dict name -> region kept by the filter
    skipped_right,          \* list of names dropped by the filter
    found_objects,          \* dict registry name -> scene object
    missing_names,          \* list of registry names with no scene object
    layers,                 \* dict registry name -> depth layer
    precomputed_transforms, \* dict registry name -> {matrix, center}
    cidx,                   \* loop position of precompute_world_transforms
    export_collection,      \* whether the _EXPORT_TEMP_ collection exists
    pidx,                   \* loop position of the per-structure loop
    used_ids,               \* set of mesh ids issued in this run
    export_objects,         \* list of baked copies handed to the exporter
    structures,             \* metadata["structures"], insertion order
    stats,                  \* per-run counters
    processed,              \* per-iteration log of the per-structure loop
    mutations,              \* number of scene mutations issued so far
    outputs,                \* files written: glTF and metadata
    report,                 \* value returned by export_torso
    call_name,              \* argument of a direct call of a name function
    call_log                \* results of the direct calls made so far

vars == << pc, registry_exists, registry, scene, faults, drift,
           all_structure_names, bilateral_pairs, export_structure_names,
           skipped_right, found_objects, missing_names, layers,
           precomputed_transforms, cidx, export_collection, pidx, used_ids,
           export_objects, structures, stats, processed, mutations, outputs,
           report, call_name, call_log >>

----------------------------------------------------------------------------
(* Bounds of the model *)

MaxReg == 4

\* words per name and characters per name in the direct calls
MaxWords == 3
MaxChars == 3

\* regions per registry file in the direct calls of the loader
MaxRegions == 2

----------------------------------------------------------------------------
(* Python string operations *)

None == << >>

UpperChars == << "A", "B", "C", "D", "E", "F", "G", "H", "I", "J", "K", "L", "M",
                "N", "O", "P", "Q", "R", "S", "T", "U", "V", "W", "X", "Y", "Z" >>
LowerChars == << "a", "b", "c", "d", "e", "f", "g", "h", "i", "j", "k", "l", "m",
                "n", "o", "p", "q", "r", "s", "t", "u", "v", "w", "x", "y", "z" >>
Digits == << "0", "1", "2", "3", "4", "5", "6", "7", "8", "9" >>

LowerChar(c) ==
    IF \E i \in DOMAIN UpperChars : UpperChars[i] = c
    THEN LowerChars[CHOOSE i \in DOMAIN UpperChars : UpperChars[i] = c]
    ELSE c

str_lower(s) == [i \in 1..Len(s) |-> LowerChar(s[i])]

str_endswith(s, suffix) ==
    /\ Len(s) >= Len(suffix)
    /\ SubSeq(s, Len(s) - Len(suffix) + 1, Len(s)) = suffix

str_startswith(s, prefix) ==
    /\ Len(s) >= Len(prefix)
    /\ SubSeq(s, 1, Len(prefix)) = prefix

str_drop_last(s, n) == SubSeq(s, 1, Len(s) - n)

\* str.replace(old, new) for a one-character old
RECURSIVE str_replace_char(_, _, _)
str_replace_char(s, old, new) ==
    IF s = << >> THEN << >>
    ELSE (IF Head(s) = old THEN new ELSE << Head(s) >>)
         \o str_replace_char(Tail(s), old, new)

\* one call of str.replace("__", "_"): leftmost, non-overlapping occurrences
RECURSIVE str_replace_double(_)
str_replace_double(s) ==
    IF Len(s) < 2 THEN s
    ELSE IF s[1] = "_" /\ s[2] = "_"
         THEN << "_" >> \o str_replace_double(SubSeq(s, 3, Len(s)))
         ELSE << s[1] >> \o str_replace_double(Tail(s))

str_has_double(s) == \E i \in 1..(Len(s) - 1) : s[i] = "_" /\ s[i + 1] = "_"

\* while "__" in clean: clean = clean.replace("__", "_")
RECURSIVE collapse_underscores(_)
collapse_underscores(s) ==
    IF str_has_double(s) THEN collapse_underscores(str_replace_double(s)) ELSE s

RECURSIVE str_lstrip(_, _)
str_lstrip(s, c) ==
    IF s # << >> /\ Head(s) = c THEN str_lstrip(Tail(s), c) ELSE s

RECURSIVE str_rstrip(_, _)
str_rstrip(s, c) ==
    IF s # << >> /\ s[Len(s)] = c THEN str_rstrip(str_drop_last(s, 1), c) ELSE s

str_strip(s, c) == str_rstrip(str_lstrip(s, c), c)

\* str(n) for n >= 0
RECURSIVE int_str(_)
int_str(n) ==
    IF n < 10 THEN << Digits[n + 1] >>
    ELSE int_str(n \div 10) \o << Digits[(n % 10) + 1] >>

DotL == << ".", "l" >>
DotR == << ".", "r" >>

\* the characters of a string literal
Str(w) == [i \in 1..Len(w) |-> SubSeq(w, i, i)]

\* the keywords of a list of string literals
Kw(ws) == [k \in DOMAIN ws |-> Str(ws[k])]

\* w in s
kw_in(w, s) ==
    \E i \in 1..(Len(s) - Len(w) + 1) :
        \A j \in 1..Len(w) : s[i + j - 1] = w[j]

\* any(w in s for w in keywords)
any_kw_in(keywords, s) == \E k \in DOMAIN keywords : kw_in(keywords[k], s)

----------------------------------------------------------------------------
(* Python dict operations on insertion-ordered sequences of entries *)

dict_has(d, k) == \E i \in DOMAIN d : d[i].key = k

dict_index(d, k) == CHOOSE i \in DOMAIN d : d[i].key = k

\* d.get(k): << >> when absent, << value >> when present
dict_get(d, k) == IF dict_has(d, k) THEN << d[dict_index(d, k)].val >> ELSE None

\* d[k] = v
dict_set(d, k, v) ==
    IF dict_has(d, k)
    THEN [d EXCEPT ![dict_index(d, k)] = [key |-> k, val |-> v]]
    ELSE Append(d, [key |-> k, val |-> v])

dict_keys(d) == [i \in DOMAIN d |-> d[i].key]

dict_keyset(d) == { d[i].key : i \in DOMAIN d }

seq_set(s) == { s[i] : i \in DOMAIN s }

----------------------------------------------------------------------------
(* Registry model *)

\* A region of the registry file: its key, the JSON kind of its value, the
\* "structures" member of an object (None when absent) with the JSON kind of
\* that member, whether the object has a "description" member, and the list
\* items (or the object's keys).
RegionWith(key, kind, structs_kind, structs, has_description, items) ==
    [key |-> key, kind |-> kind, structs_kind |-> structs_kind,
     structs |-> structs, has_description |-> has_description, items |-> items]

\* a region whose "structures" member, if any, is a list
Region(key, kind, structs, has_description, items) ==
    RegionWith(key, kind, "list", structs, has_description, items)

RECURSIVE add_names(_, _, _)
add_names(acc, names, region) ==
    IF names = << >> THEN acc
    ELSE add_names(dict_set(acc, Head(names), region), Tail(names), region)

\* for name in data["structures"] over a string yields its characters
string_items(text) == [i \in DOMAIN text |-> << text[i] >>]

\* for name in data["structures"] over a number raises TypeError
region_raises(data) ==
    /\ data.kind = "dict"
    /\ data.structs # None
    /\ data.structs_kind = "number"

\* variant: an object without "structures" contributes nothing
region_names_structures_only(data) ==
    IF data.kind = "dict"
    THEN IF data.structs # None
         THEN IF data.structs_kind = "string" THEN string_items(data.structs[1])
              ELSE data.structs[1]
         ELSE << >>
    ELSE IF data.kind = "list" THEN data.items
    ELSE << >>

region_names(data) ==
    IF data.kind = "dict"
    THEN IF data.structs # None
         THEN IF data.structs_kind = "string" THEN string_items(data.structs[1])
              ELSE data.structs[1]
         ELSE IF ~data.has_description THEN data.items
         ELSE << >>
    ELSE IF data.kind = "list" THEN data.items
    ELSE << >>

RECURSIVE get_all_structure_names_from(_, _)
get_all_structure_names_from(acc, regions) ==
    IF regions = << >> THEN acc
    ELSE LET data == Head(regions) IN
         IF str_startswith(data.key, << "_" >>)
         THEN get_all_structure_names_from(acc, Tail(regions))
         ELSE get_all_structure_names_from(
                  add_names(acc, region_names(data), data.key), Tail(regions))

get_all_structure_names(reg) == get_all_structure_names_from(<< >>, reg)

\* the loop over the regions reaches one whose iteration raises
get_all_structure_names_raises(reg) ==
    \E i \in DOMAIN reg :
        ~str_startswith(reg[i].key, << "_" >>) /\ region_raises(reg[i])

----------------------------------------------------------------------------
(* Bilateral structure analysis *)

extract_side_and_base(name) ==
    IF str_endswith(name, DotL)
    THEN [base |-> str_drop_last(name, 2), side |-> "left"]
    ELSE IF str_endswith(name, DotR)
    THEN [base |-> str_drop_last(name, 2), side |-> "right"]
    ELSE [base |-> name, side |-> "midline"]

EmptyPair == [left |-> None, right |-> None, region |-> None]

\* by_base[base], created on first access (defaultdict)
by_base_get(by_base, base) ==
    IF dict_has(by_base, base) THEN by_base[dict_index(by_base, base)].val
    ELSE EmptyPair

RECURSIVE group_by_base(_, _)
group_by_base(by_base, names) ==
    IF names = << >> THEN by_base
    ELSE LET name == Head(names).key
             region == Head(names).val
             sb == extract_side_and_base(name)
             info == by_base_get(by_base, sb.base)
         IN  IF sb.side = "left"
             THEN group_by_base(
                      dict_set(by_base, sb.base,
                               [info EXCEPT !.left = << name >>,
                                            !.region = << region >>]),
                      Tail(names))
             ELSE IF sb.side = "right"
             THEN group_by_base(
                      dict_set(by_base, sb.base,
                               [info EXCEPT !.right = << name >>,
                                            !.region = << region >>]),
                      Tail(names))
             ELSE group_by_base(by_base, Tail(names))

\* variant: a left member alone makes a pair
pair_is_complete_left_only(info) == info.left # None

pair_is_complete(info) == info.left # None /\ info.right # None

find_bilateral_pairs(structure_names) ==
    LET by_base == group_by_base(<< >>, structure_names)
        complete(e) == pair_is_complete(e.val)
    IN  SelectSeq(by_base, complete)

\* variant: no right side is dropped
filter_skips_never(name, pairs) == FALSE

\* the test of the filter loop: is this entry skipped?
filter_skips(name, pairs) ==
    LET sb == extract_side_and_base(name)
    IN  sb.side = "right" /\ dict_has(pairs, sb.base)

filter_for_export(structure_names, pairs) ==
    LET kept(e) == ~filter_skips(e.key, pairs)
        dropped(e) == filter_skips(e.key, pairs)
    IN  [filtered |-> SelectSeq(structure_names, kept),
         skipped |-> dict_keys(SelectSeq(structure_names, dropped))]

----------------------------------------------------------------------------
(* Anatomical type detection *)

fascia_keywords ==
    Kw(<< "fascia", "aponeurosis", "tract", "retinaculum", "tendinous arch" >>)

tendon_keywords == Kw(<< "tendon", "sheath" >>)

capsule_keywords == Kw(<< "articular capsule", "capsule" >>)

muscle_keywords ==
    Kw(<< "muscle", "muscul",
       "abdominis", "dorsi", "oblique", "diaphragm",
       "levator", "rotator",
       "brachii", "brachialis", "coracobrachialis",
       "deltoid", "supinator", "pronator",
       "pollicis", "indicis", "digiti",
       "interossei", "lumbrical", "opponens",
       "flexor carpi", "extensor carpi",
       "flexor digitorum", "extensor digitorum",
       "femoris", "gastrocnemius", "soleus",
       "adductor", "obturator", "sphincter",
       "hallucis", "psoas",
       "frontalis", "occipitalis", "temporoparietalis",
       "orbicularis", "corrugator", "procerus",
       "nasalis", "depressor", "zygomaticus",
       "risorius", "mentalis", "buccinator", "platysma",
       "masseter", "temporalis", "pterygoid",
       "genioglossus", "hyoglossus", "styloglossus", "palatoglossus",
       "digastric", "mylohyoid", "geniohyoid", "stylohyoid",
       "sternohyoid", "sternothyroid", "thyrohyoid", "omohyoid",
       "constrictor", "palatopharyngeus", "stylopharyngeus", "salpingopharyngeus",
       "cricothyroid", "thyroarytenoid", "thyro-arytenoid",
       "cricoarytenoid", "crico-arytenoid",
       "aryepiglottic", "ary-epiglottic", "vocalis",
       "sternocleidomastoid", "scalenus",
       "longus colli", "longus capitis",
       "splenius", "semispinalis",
       "rectus capitis", "obliquus capitis",
       "rectus superior", "rectus inferior",
       "rectus medialis", "rectus lateralis",
       "oblique muscle", "levator palpebrae" >>)

bone_keywords ==
    Kw(<< "bone", "vertebra", "rib", "sternum", "sacrum", "coccyx",
       "ilium", "ischium", "pubis", "hip bone",
       "atlas", "axis", "xiphoid",
       "humerus", "radius", "ulna", "scapula", "clavicle",
       "capitate", "hamate", "lunate", "pisiform",
       "scaphoid", "trapezium", "trapezoid", "triquetrum",
       "metacarpal", "phalanx", "phalang",
       "femur", "tibia", "fibula", "patella",
       "talus", "calcaneus", "navicular", "cuboid", "cuneiform",
       "metatarsal",
       "frontal bone", "parietal bone", "temporal bone", "occipital bone",
       "sphenoid", "ethmoid",
       "mandible", "maxilla", "zygomatic", "nasal bone", "nasal concha",
       "lacrimal", "palatine", "vomer", "hyoid" >>)

ligament_keywords == Kw(<< "ligament", "ligamentum", "zona orbicularis" >>)

cartilage_keywords ==
    Kw(<< "cartilage", "disc", "meniscus", "labrum", "symphysis",
       "nucleus pulposus", "thyroid cartilage", "cricoid",
       "arytenoid", "epiglott", "nasal septal" >>)

membrane_keywords == Kw(<< "membrane" >>)

bursa_keywords == Kw(<< "bursa", "bursae" >>)

capsule_of_keywords == Kw(<< "frenula capsulae", "capsule of" >>)

\* variant: the muscle keywords are tried before the tendon keywords
get_anatomical_type_muscle_first(name) ==
    LET name_lower == str_lower(name) IN
    IF any_kw_in(fascia_keywords, name_lower) THEN "fascia"
    ELSE IF any_kw_in(muscle_keywords, name_lower) THEN "muscle"
    ELSE IF any_kw_in(tendon_keywords, name_lower) THEN "tendon"
    ELSE IF any_kw_in(capsule_keywords, name_lower) THEN "capsule"
    ELSE IF any_kw_in(bone_keywords, name_lower) THEN "bone"
    ELSE IF any_kw_in(ligament_keywords, name_lower) THEN "ligament"
    ELSE IF any_kw_in(cartilage_keywords, name_lower) THEN "cartilage"
    ELSE IF any_kw_in(membrane_keywords, name_lower) THEN "membrane"
    ELSE IF any_kw_in(bursa_keywords, name_lower) THEN "bursa"
    ELSE IF any_kw_in(capsule_of_keywords, name_lower) THEN "capsule"
    ELSE "other"

\* variant: the default of the cascade comes before the capsule-of group
get_anatomical_type_early_default(name) ==
    LET name_lower == str_lower(name) IN
    IF any_kw_in(fascia_keywords, name_lower) THEN "fascia"
    ELSE IF any_kw_in(tendon_keywords, name_lower) THEN "tendon"
    ELSE IF any_kw_in(capsule_keywords, name_lower) THEN "capsule"
    ELSE IF any_kw_in(muscle_keywords, name_lower) THEN "muscle"
    ELSE IF any_kw_in(bone_keywords, name_lower) THEN "bone"
    ELSE IF any_kw_in(ligament_keywords, name_lower) THEN "ligament"
    ELSE IF any_kw_in(cartilage_keywords, name_lower) THEN "cartilage"
    ELSE IF any_kw_in(membrane_keywords, name_lower) THEN "membrane"
    ELSE IF any_kw_in(bursa_keywords, name_lower) THEN "bursa"
    ELSE "other"

get_anatomical_type(name) ==
    LET name_lower == str_lower(name) IN
    IF any_kw_in(fascia_keywords, name_lower) THEN "fascia"
    ELSE IF any_kw_in(tendon_keywords, name_lower) THEN "tendon"
    ELSE IF any_kw_in(capsule_keywords, name_lower) THEN "capsule"
    ELSE IF any_kw_in(muscle_keywords, name_lower) THEN "muscle"
    ELSE IF any_kw_in(bone_keywords, name_lower) THEN "bone"
    ELSE IF any_kw_in(ligament_keywords, name_lower) THEN "ligament"
    ELSE IF any_kw_in(cartilage_keywords, name_lower) THEN "cartilage"
    ELSE IF any_kw_in(membrane_keywords, name_lower) THEN "membrane"
    ELSE IF any_kw_in(bursa_keywords, name_lower) THEN "bursa"
    ELSE IF any_kw_in(capsule_of_keywords, name_lower) THEN "capsule"
    ELSE "other"

----------------------------------------------------------------------------
(* Layer computation *)

deep_muscle_keywords ==
    Kw(<< "multifid", "rotat", "interspinal", "intertransvers",
       "transversus thoracis", "innermost", "diaphragm",
       "pelvic floor", "coccygeus", "levator ani", "pubo",
       "obturator internus", "piriformis", "gemell" >>)

intermediate_muscle_keywords ==
    Kw(<< "internal", "erector", "spinalis", "longissimus",
       "iliocostalis", "semispinal", "oblique", "quadratus",
       "psoas", "iliacus", "obturator externus" >>)

\* variant: the intermediate keywords are tried before the deep ones
base_layer_intermediate_first(anat_type, name) ==
    LET name_lower == str_lower(name) IN
    IF anat_type \in { "bone", "cartilage" } THEN 0
    ELSE IF anat_type \in { "ligament", "membrane" } THEN 1
    ELSE IF anat_type = "fascia" THEN 4
    ELSE IF anat_type \in { "bursa" } THEN 3
    ELSE IF anat_type = "muscle"
         THEN IF any_kw_in(intermediate_muscle_keywords, name_lower) THEN 2
              ELSE IF any_kw_in(deep_muscle_keywords, name_lower) THEN 1
              ELSE 3
    ELSE 3

\* base_layer of one name in the loop of compute_structure_layers
base_layer(anat_type, name) ==
    LET name_lower == str_lower(name) IN
    IF anat_type \in { "bone", "cartilage" } THEN 0
    ELSE IF anat_type \in { "ligament", "membrane" } THEN 1
    ELSE IF anat_type = "fascia" THEN 4
    ELSE IF anat_type \in { "bursa" } THEN 3
    ELSE IF anat_type = "muscle"
         THEN IF any_kw_in(deep_muscle_keywords, name_lower) THEN 1
              ELSE IF any_kw_in(intermediate_muscle_keywords, name_lower) THEN 2
              ELSE 3
    ELSE 3

RECURSIVE compute_layers_from(_, _)
compute_layers_from(acc, objects) ==
    IF objects = << >> THEN acc
    ELSE LET name == Head(objects).key
         IN  compute_layers_from(
                 dict_set(acc, name, base_layer(get_anatomical_type(name), name)),
                 Tail(objects))

compute_structure_layers(objects) == compute_layers_from(<< >>, objects)

----------------------------------------------------------------------------
(* Mesh id generation *)

normalize_chars(clean) ==
    LET c1 == str_replace_char(clean, " ", << "_" >>)
        c2 == str_replace_char(c1, "-", << "_" >>)
        c3 == str_replace_char(c2, ".", << "_" >>)
        c4 == str_replace_char(c3, "(", << >>)
        c5 == str_replace_char(c4, ")", << >>)
    IN  str_strip(collapse_underscores(c5), "_")

\* variant: the side suffix of a bilateral name is not removed
normalize_mesh_id_keeps_side(name, is_bilateral) ==
    LET clean == str_lower(name) IN
    IF is_bilateral
    THEN normalize_chars(clean)
    ELSE IF str_endswith(clean, DotL)
         THEN normalize_chars(str_drop_last(clean, 2)) \o << "_", "l" >>
         ELSE IF str_endswith(clean, DotR)
         THEN normalize_chars(str_drop_last(clean, 2)) \o << "_", "r" >>
         ELSE normalize_chars(clean)

normalize_mesh_id(name, is_bilateral) ==
    LET clean == str_lower(name) IN
    IF is_bilateral
    THEN IF str_endswith(clean, DotL) \/ str_endswith(clean, DotR)
         THEN normalize_chars(str_drop_last(clean, 2))
         ELSE normalize_chars(clean)
    ELSE IF str_endswith(clean, DotL)
         THEN normalize_chars(str_drop_last(clean, 2)) \o << "_", "l" >>
         ELSE IF str_endswith(clean, DotR)
         THEN normalize_chars(str_drop_last(clean, 2)) \o << "_", "r" >>
         ELSE normalize_chars(clean)

suffixed_id(base_id, counter) == base_id \o << "_" >> \o int_str(counter)

\* mesh_id = f"{base_id}_{counter}"; counter += 1, while mesh_id in used_ids
RECURSIVE next_free_id(_, _, _)
next_free_id(base_id, counter, used) ==
    IF suffixed_id(base_id, counter) \in used
    THEN next_free_id(base_id, counter + 1, used)
    ELSE suffixed_id(base_id, counter)

\* variant: the base id is issued whether or not it is taken
allocate_mesh_id_unchecked(base_id, used) == base_id

\* variant: "if" in place of "while", the suffix is tried once
allocate_mesh_id_once(base_id, used) ==
    IF base_id \in used THEN suffixed_id(base_id, 1) ELSE base_id

\* variant: the counter starts at 2
allocate_mesh_id_from_two(base_id, used) ==
    IF base_id \in used THEN next_free_id(base_id, 2, used) ELSE base_id

allocate_mesh_id(base_id, used) ==
    IF base_id \in used THEN next_free_id(base_id, 1, used) ELSE base_id

----------------------------------------------------------------------------
(* Scene objects and transforms *)

Zero3 == << 0, 0, 0 >>
VAdd(a, b) == << a[1] + b[1], a[2] + b[2], a[3] + b[3] >>
VSub(a, b) == << a[1] - b[1], a[2] - b[2], a[3] - b[3] >>
VDiv(a, n) == << a[1] \div n, a[2] \div n, a[3] \div n >>
\* squared length of a vector
VLen2(a) == a[1] * a[1] + a[2] * a[2] + a[3] * a[3]

RECURSIVE VSum(_)
VSum(vs) == IF vs = << >> THEN Zero3 ELSE VAdd(Head(vs), VSum(Tail(vs)))

\* A scene object: name, type ('MESH', 'EMPTY'), parent (index into the
\* scene, 0 for none), local location, mesh vertices (local coordinates) and
\* whether the object is in the active view layer (selectable).
Node(name, type, parent, location, verts, in_view_layer) ==
    [name |-> name, type |-> type, parent |-> parent, location |-> location,
     verts |-> verts, in_view_layer |-> in_view_layer]

RECURSIVE sum_parent_locations(_, _)
sum_parent_locations(sc, o) ==
    IF sc[o].parent = 0 THEN sc[o].location
    ELSE VAdd(sc[o].location, sum_parent_locations(sc, sc[o].parent))

\* obj.matrix_world.translation as the host evaluates it: the parent chain,
\* displaced by d for an object whose ancestor chain the host re-evaluated
\* after a hierarchy mutation ("parent chain corruption")
matrix_world(sc, d, o) ==
    IF sc[o].parent = 0 THEN sc[o].location
    ELSE VAdd(sum_parent_locations(sc, o), d)

get_world_geometry_center(sc, d, o) ==
    IF sc[o].type # "MESH" \/ Len(sc[o].verts) = 0
    THEN matrix_world(sc, d, o)
    ELSE LET mw == matrix_world(sc, d, o)
             world == [i \in DOMAIN sc[o].verts |-> VAdd(mw, sc[o].verts[i])]
         IN  VDiv(VSum(world), Len(sc[o].verts))

\* one entry of precompute_world_transforms
precompute_entry(sc, d, o) ==
    [matrix |-> matrix_world(sc, d, o),
     center |-> get_world_geometry_center(sc, d, o)]

\* units (1e-5) per step of the fourth decimal
RoundStep == 10

\* round(x, 4): nearest multiple of the fourth decimal, ties to even
round4(x) ==
    LET q == x \div RoundStep
        r == x % RoundStep
    IN  IF 2 * r < RoundStep THEN q * RoundStep
        ELSE IF 2 * r > RoundStep THEN (q + 1) * RoundStep
        ELSE IF q % 2 = 0 THEN q * RoundStep ELSE (q + 1) * RoundStep

\* Blender Z-up to Three.js Y-up
blender_to_threejs(loc) == << round4(loc[1]), round4(loc[3]), round4(-loc[2]) >>

\* variant: the wrong component is negated
mirror_center_y(center) == << center[1], -center[2], center[3] >>

mirror_center_x(center) == << -center[1], center[2], center[3] >>

----------------------------------------------------------------------------
(* Scene resolver *)

scene_normalized(name) ==
    str_replace_char(str_replace_char(str_lower(name), " ", << "_" >>),
                     "-", << "_" >>)

scene_has(sc, name) == \E o \in DOMAIN sc : sc[o].name = name

scene_index(sc, name) == CHOOSE o \in DOMAIN sc : sc[o].name = name

\* variant: the object of that exact name is returned whatever its type
find_structure_any_type(sc, name) ==
    IF scene_has(sc, name)
    THEN scene_index(sc, name)
    ELSE LET hits == { o \in DOMAIN sc :
                         /\ sc[o].type = "MESH"
                         /\ scene_normalized(sc[o].name) = scene_normalized(name) }
         IN  IF hits = {} THEN 0
             ELSE CHOOSE o \in hits : \A h \in hits : o <= h

\* the object found for a registry name, 0 for None
find_structure_in_blender(sc, name) ==
    IF scene_has(sc, name) /\ sc[scene_index(sc, name)].type = "MESH"
    THEN scene_index(sc, name)
    ELSE LET hits == { o \in DOMAIN sc :
                         /\ sc[o].type = "MESH"
                         /\ scene_normalized(sc[o].name) = scene_normalized(name) }
         IN  IF hits = {} THEN 0
             ELSE CHOOSE o \in hits : \A h \in hits : o <= h

\* variant: a name that is not found is not recorded
RECURSIVE find_all_from_silent(_, _, _)
find_all_from_silent(sc, names, acc) ==
    IF names = << >> THEN acc
    ELSE LET name == Head(names).key
             obj == find_structure_in_blender(sc, name)
         IN  IF obj # 0
             THEN find_all_from_silent(sc, Tail(names),
                      [acc EXCEPT !.found = dict_set(@, name, obj)])
             ELSE find_all_from_silent(sc, Tail(names), acc)

RECURSIVE find_all_from(_, _, _)
find_all_from(sc, names, acc) ==
    IF names = << >> THEN acc
    ELSE LET name == Head(names).key
             obj == find_structure_in_blender(sc, name)
         IN  IF obj # 0
             THEN find_all_from(sc, Tail(names),
                      [acc EXCEPT !.found = dict_set(@, name, obj)])
             ELSE find_all_from(sc, Tail(names),
                      [acc EXCEPT !.missing = Append(@, name)])

find_all_registry_objects(sc, registry_names) ==
    find_all_from(sc, registry_names, [found |-> << >>, missing |-> << >>])

----------------------------------------------------------------------------
(* Object processing *)

BROKEN_PARENT_CHAIN_PATTERNS == << >>

str_contains(s, sub) ==
    \E i \in 1..(Len(s) - Len(sub) + 1) : SubSeq(s, i, i + Len(sub) - 1) = sub

needs_location_sum_fix(obj_name) ==
    \E k \in DOMAIN BROKEN_PARENT_CHAIN_PATTERNS :
        str_contains(str_lower(obj_name), BROKEN_PARENT_CHAIN_PATTERNS[k])

\* 0.001 scene units
Tolerance == 100

\* variant: the snapshot is never consulted
needs_matrix_fix_never(current_pos, precomputed_pos) == FALSE

\* variant: position_diff >= 0.001
needs_matrix_fix_inclusive(current_pos, precomputed_pos) ==
    VLen2(VSub(current_pos, precomputed_pos)) >= Tolerance * Tolerance

\* position_diff > 0.001, on squared lengths
needs_matrix_fix(current_pos, precomputed_pos) ==
    VLen2(VSub(current_pos, precomputed_pos)) > Tolerance * Tolerance

\* select_set(True) raises for an object that is not in the view layer
select_raises(sc, o) == ~sc[o].in_view_layer

\* the call of process_standard_object / process_broken_parent_object that
\* raises out of the function for object o: original.select_set before the
\* duplicate, export_collection.objects.link after it, or none
raising_step(sc, f, o) ==
    IF select_raises(sc, o) THEN "select_set"
    ELSE IF f[o] = "link" THEN "link"
    ELSE "none"

\* transform_apply raises inside the try of the processing function: the
\* warning is printed, the geometry stays unbaked and the origin is not moved
transform_apply_raises(f, o) == f[o] = "transform_apply"

transform_warning(copy) == [copy EXCEPT !.location = copy.baked]

mean_vertex(sc, o) ==
    IF Len(sc[o].verts) = 0 THEN Zero3
    ELSE VDiv(VSum(sc[o].verts), Len(sc[o].verts))

\* variant: the original is unparented, not its copy
scene_unparented(sc, o) == [sc EXCEPT ![o].parent = 0]

\* the objects of the source scene after the processing of object o: parent,
\* location, rotation, scale and name are assigned on the copy only
scene_after_processing(sc, o) == sc

\* The baked copy of process_standard_object: the world translation that is
\* applied to the geometry, the path taken and the origin after origin_set.
process_standard_object(sc, d, o, precomputed_transform) ==
    LET current_pos == matrix_world(sc, d, o)
        fix == /\ precomputed_transform # None
               /\ needs_matrix_fix(current_pos, precomputed_transform[1].matrix)
        baked == IF fix THEN precomputed_transform[1].matrix ELSE current_pos
    IN  [name |-> sc[o].name \o << "_", "e", "x", "p", "o", "r", "t" >>,
         path |-> IF fix THEN "corrective" ELSE "standard",
         current_pos |-> current_pos,
         baked |-> baked,
         location |-> VAdd(baked, mean_vertex(sc, o))]

\* compute_world_center_via_location_sum, with identity rotation and scale
compute_world_center_via_location_sum(sc, o) ==
    IF sc[o].type # "MESH" \/ Len(sc[o].verts) = 0
    THEN sum_parent_locations(sc, o)
    ELSE VAdd(sum_parent_locations(sc, o), mean_vertex(sc, o))

process_broken_parent_object(sc, d, o) ==
    LET world_center == compute_world_center_via_location_sum(sc, o)
    IN  [name |-> sc[o].name \o << "_", "e", "x", "p", "o", "r", "t" >>,
         path |-> "location_sum",
         current_pos |-> matrix_world(sc, d, o),
         baked |-> sum_parent_locations(sc, o),
         location |-> world_center]

----------------------------------------------------------------------------
(* The per-structure loop body of export_torso *)

\* is_bilateral = base_name in bilateral_pairs
is_bilateral_structure(registry_name, pairs) ==
    dict_has(pairs, extract_side_and_base(registry_name).base)

\* variant: the center is read from the baked copy
metadata_center_live(precomputed_transform, copy) == copy.location

\* world_center = precomputed_transform['center'] if precomputed_transform
\*                else copy.location.copy()
metadata_center(precomputed_transform, copy) ==
    IF precomputed_transform # None THEN precomputed_transform[1].center
    ELSE copy.location

\* variant: the layer is always the default of layers.get
record_layer_default(layer_dict, registry_name) == 3

\* layers.get(registry_name, 3)
record_layer(layer_dict, registry_name) ==
    IF dict_has(layer_dict, registry_name)
    THEN dict_get(layer_dict, registry_name)[1]
    ELSE 3

structure_metadata(mesh_id, registry_name, anat_type, layer, region, is_bilateral, center_threejs) ==
    [meshId |-> mesh_id,
     originalName |-> registry_name,
     baseName |-> extract_side_and_base(registry_name).base,
     type |-> anat_type,
     layer |-> layer,
     region |-> region,
     bilateral |-> is_bilateral,
     center |-> center_threejs,
     mirroredCenter |-> IF is_bilateral THEN << mirror_center_x(center_threejs) >>
                        ELSE None]

\* variant: a one-sided structure is not counted
count_structure_two_way(st, registry_name, is_bilateral) ==
    IF is_bilateral THEN [st EXCEPT !.bilateral = @ + 1]
    ELSE IF extract_side_and_base(registry_name).side = "midline"
    THEN [st EXCEPT !.midline = @ + 1]
    ELSE st

count_structure(st, registry_name, is_bilateral) ==
    IF is_bilateral THEN [st EXCEPT !.bilateral = @ + 1]
    ELSE IF extract_side_and_base(registry_name).side = "midline"
    THEN [st EXCEPT !.midline = @ + 1]
    ELSE [st EXCEPT !.orphan = @ + 1]

\* variant: the capture loop stops after its first object
precompute_loop_done_after_first(i, found) == i > 1

\* for name, obj in objects.items() of precompute_world_transforms is over
precompute_loop_done(i, found) == i > Len(found)

----------------------------------------------------------------------------
(* Inputs *)

nX   == << "x" >>
nXup == << "X" >>
nX1  == << "x", "_", "1" >>
nXd1 == << "x", "-", "1" >>
nXL  == << "x", ".", "l" >>
nXR  == << "x", ".", "r" >>

NamePool == { nX, nXup, nX1, nXd1, nXL, nXR }

IsInjective(f) == \A i, j \in DOMAIN f : i # j => f[i] # f[j]

\* lists of distinct names, in every order
NameLists ==
    { ns \in UNION { [1..n -> NamePool] : n \in 0..MaxReg } : IsInjective(ns) }

PelvisKey == << "p", "e", "l", "v", "i", "s" >>
MetaKey == << "_", "m", "e", "t", "a" >>

\* {"_meta": [...], "pelvis": {"structures": [...]}}
RegistryFile(ns) ==
    << Region(MetaKey, "list", None, FALSE, << nX >>),
       Region(PelvisKey, "dict", << ns >>, FALSE, << >>) >>

ThoraxKey == Str("thorax")

\* the values a region of the file may have: the three accepted shapes, an
\* object that only describes, and malformed values (a scalar, a "structures"
\* member that is a number, one that is a string)
RegionValues(key) ==
    { Region(key, "list", None, FALSE, << >>),
      Region(key, "list", None, FALSE, << nXL, nX >>),
      Region(key, "dict", << << nX >> >>, FALSE, << Str("structures") >>),
      Region(key, "dict", << << nXR, nXL >> >>, TRUE,
             << Str("description"), Str("structures") >>),
      Region(key, "dict", None, FALSE, << nX, nXR >>),
      Region(key, "dict", None, TRUE, << Str("description") >>),
      Region(key, "scalar", None, FALSE, << >>),
      RegionWith(key, "dict", "number", << << >> >>, FALSE, << Str("structures") >>),
      RegionWith(key, "dict", "string", << nXL >>, FALSE, << Str("structures") >>) }

RegionKeys == << MetaKey, PelvisKey, ThoraxKey >>

\* registry files of up to MaxRegions regions with distinct keys, in any order
RegistryShapes ==
    { reg \in UNION { [1..n -> UNION { RegionValues(RegionKeys[k]) : k \in DOMAIN RegionKeys }] :
                        n \in 1..MaxRegions } :
        \A i, j \in DOMAIN reg : i # j => reg[i].key # reg[j].key }

Verts2 == << << 10, 20, 30 >>, << -10, 40, 50 >> >>

\* every name of the pool is a root mesh of its own
ScenePristine ==
    << Node(nX,   "MESH", 0, << 1003, -2004, 307 >>, Verts2, TRUE),
       Node(nXup, "MESH", 0, << 2003, -4004, 607 >>, << >>, TRUE),
       Node(nX1,  "MESH", 0, << 3003, -6004, 907 >>, Verts2, TRUE),
       Node(nXd1, "MESH", 0, << 4003, -8004, 1207 >>, Verts2, TRUE),
       Node(nXL,  "MESH", 0, << 5003, -1004, 1507 >>, Verts2, TRUE),
       Node(nXR,  "MESH", 0, << -5003, -1004, 1507 >>, Verts2, TRUE) >>

\* a hand-assembled scene: a group with parented meshes, a non-mesh object
\* with a registry name, an object outside the view layer, a name missing
SceneMessy ==
    << Node(<< "g" >>, "EMPTY", 0, << 500, 0, 0 >>, << >>, TRUE),
       Node(nXup, "MESH", 1, << 1503, -4004, 607 >>, Verts2, TRUE),
       Node(nX1,  "EMPTY", 0, << 3003, -6004, 907 >>, << >>, TRUE),
       Node(nXd1, "MESH", 0, << 4003, -8004, 1207 >>, Verts2, FALSE),
       Node(nXL,  "MESH", 1, << 4503, -1004, 1507 >>, Verts2, TRUE) >>

\* no mesh at all
SceneBare == << Node(nX, "EMPTY", 0, Zero3, << >>, TRUE) >>

Scenes == { ScenePristine, SceneMessy, SceneBare }

\* displacements the host may leave on the world matrix of parented objects
\* while the hierarchy is mutated: none, exactly the tolerance, just above it
Drifts == { Zero3, << 60, 80, 0 >>, << 60, 80, 1 >> }

HostDrifts(sc) ==
    IF \E o \in DOMAIN sc : sc[o].parent # 0 THEN Drifts ELSE { Zero3 }

\* the host rejects no call
NoFaults(sc) == [o \in DOMAIN sc |-> "none"]

\* names of the pelvis region
aSacrum  == Str("sacrum")
aCoccyx  == Str("coccyx")
aDisc    == Str("interpubic disc")
aDiscUp  == Str("Interpubic Disc")
aLig     == Str("inferior pubic ligament")
aPsoasL  == Str("psoas major.l")
aPsoasR  == Str("psoas major.r")
aObtR    == Str("obturator internus.r")

PelvisRegistries ==
    { << >>,
      << aSacrum, aPsoasL, aPsoasR >>,
      << aDisc, aLig, aObtR >>,
      << aLig, aCoccyx >>,
      << aObtR, aCoccyx, aSacrum >>,
      << aPsoasR, aDisc, aPsoasL, aObtR >> }

\* the pelvis of the source scene: a group with parented meshes; the disc is
\* named with capitals, the ligament is outside the view layer
ScenePelvis ==
    << Node(Str("pelvis"), "EMPTY", 0, << 0, 500, 9000 >>, << >>, TRUE),
       Node(aSacrum, "MESH", 0, << 0, 4003, 9507 >>, Verts2, TRUE),
       Node(aDiscUp, "MESH", 1, << 0, -3004, -493 >>, Verts2, TRUE),
       Node(aLig,    "MESH", 1, << 0, -3104, -893 >>, Verts2, FALSE),
       Node(aPsoasL, "MESH", 1, << 4003, 1004, 1507 >>, Verts2, TRUE),
       Node(aPsoasR, "MESH", 1, << -4003, 1004, 1507 >>, Verts2, TRUE),
       Node(aObtR,   "MESH", 1, << -6003, -1004, -507 >>, << >>, TRUE) >>

\* a scene for direct lookups: a non-mesh object, a mesh named with one
\* space, a mesh named with two consecutive spaces
SceneChars ==
    << Node(Str("b-l"), "EMPTY", 0, Zero3, << >>, TRUE),
       Node(Str("B l"), "MESH", 0, << 1003, -2004, 307 >>, Verts2, TRUE),
       Node(Str("l  B"), "MESH", 0, << 2003, -4004, 607 >>, Verts2, TRUE) >>

\* calls the host rejects: none; the link of the copy of one object; the
\* bake of one object; both on different objects
PelvisFaults ==
    { NoFaults(ScenePelvis),
      [NoFaults(ScenePelvis) EXCEPT ![2] = "link"],
      [NoFaults(ScenePelvis) EXCEPT ![3] = "transform_apply"],
      [NoFaults(ScenePelvis) EXCEPT ![5] = "link", ![7] = "transform_apply"] }

\* words of structure names: one per keyword group and per layer keyword,
\* listed against the order of the cascade
NameWords ==
    << Str("frenula capsulae"), Str("bursa"), Str("membrane"), Str("disc"),
       Str("ligament"), Str("rib"), Str("dorsi"), Str("rotator"), Str("psoas"),
       Str("capsule"), Str("sheath"), Str("tendon"), Str("fascia") >>

\* the words picked by a set of indices, in list order, joined by spaces
RECURSIVE join_words(_, _)
join_words(picked, i) ==
    IF i > Len(NameWords) THEN << >>
    ELSE LET rest == join_words(picked, i + 1)
         IN  IF i \notin picked THEN rest
             ELSE IF rest = << >> THEN NameWords[i]
             ELSE NameWords[i] \o << " " >> \o rest

\* names of up to MaxWords different words
WordNames ==
    { join_words(picked, 1) :
        picked \in { S \in SUBSET (1..Len(NameWords)) : Cardinality(S) <= MaxWords } }

NameChars == { "B", "l", " ", "-", ".", "(", ")", "_" }

\* names of up to MaxChars characters
CharNames == UNION { [1..n -> NameChars] : n \in 0..MaxChars }

----------------------------------------------------------------------------
(* export_torso *)

EmptyStats == [bilateral |-> 0, midline |-> 0, orphan |-> 0, failed |-> 0]

\* results returned so far by the direct calls, per function
EmptyCallLog ==
    [types |-> {}, layers |-> {}, ids |-> {}, sided |-> {}, found |-> {},
     names |-> {}]

InitRun ==
    /\ pc = "load"
    /\ drift = Zero3
    /\ all_structure_names = << >>
    /\ bilateral_pairs = << >>
    /\ export_structure_names = << >>
    /\ skipped_right = << >>
    /\ found_objects = << >>
    /\ missing_names = << >>
    /\ precomputed_transforms = << >>
    /\ cidx = 0
    /\ export_collection = FALSE
    /\ pidx = 0
    /\ layers = << >>
    /\ used_ids = {}
    /\ export_objects = << >>
    /\ structures = << >>
    /\ stats = EmptyStats
    /\ processed = << >>
    /\ mutations = 0
    /\ outputs = None
    /\ report = None

Init ==
    /\ InitRun
    /\ call_name = None
    /\ call_log = EmptyCallLog
    /\ \/ /\ registry_exists = FALSE
          /\ registry = << >>
          /\ scene = SceneBare
       \/ /\ registry_exists = TRUE
          /\ \E ns \in NameLists : registry = RegistryFile(ns)
          /\ scene \in Scenes
    /\ faults = NoFaults(scene)

inputs == << registry_exists, registry, scene, faults >>

calls == << call_name, call_log >>

\* variant: the run goes on with nothing resolved
no_structures_found_never(found) == FALSE

\* if not found_objects
no_structures_found(found) == found = << >>

\* load_registry raises FileNotFoundError: export_torso returns None
LoadRegistryMissing ==
    /\ pc = "load"
    /\ ~registry_exists
    /\ pc' = "aborted"
    /\ UNCHANGED << inputs, calls, layers, drift, all_structure_names, bilateral_pairs,
                    export_structure_names, skipped_right, found_objects,
                    missing_names, precomputed_transforms, cidx,
                    export_collection, pidx, used_ids, export_objects,
                    structures, stats, processed, mutations, outputs, report >>

LoadRegistry ==
    /\ pc = "load"
    /\ registry_exists
    /\ all_structure_names' = get_all_structure_names(registry)
    /\ pc' = "pairs"
    /\ UNCHANGED << inputs, calls, layers, drift, bilateral_pairs,
                    export_structure_names, skipped_right, found_objects,
                    missing_names, precomputed_transforms, cidx,
                    export_collection, pidx, used_ids, export_objects,
                    structures, stats, processed, mutations, outputs, report >>

AnalyzePairs ==
    /\ pc = "pairs"
    /\ bilateral_pairs' = find_bilateral_pairs(all_structure_names)
    /\ pc' = "filter"
    /\ UNCHANGED << inputs, calls, layers, drift, all_structure_names,
                    export_structure_names, skipped_right, found_objects,
                    missing_names, precomputed_transforms, cidx,
                    export_collection, pidx, used_ids, export_objects,
                    structures, stats, processed, mutations, outputs, report >>

FilterForExport ==
    /\ pc = "filter"
    /\ LET r == filter_for_export(all_structure_names, bilateral_pairs)
       IN  /\ export_structure_names' = r.filtered
           /\ skipped_right' = r.skipped
    /\ pc' = "find"
    /\ UNCHANGED << inputs, calls, layers, drift, all_structure_names, bilateral_pairs,
                    found_objects,
                    missing_names, precomputed_transforms, cidx,
                    export_collection, pidx, used_ids, export_objects,
                    structures, stats, processed, mutations, outputs, report >>

\* find_all_registry_objects; "No structures found in Blender!" returns None
FindObjects ==
    /\ pc = "find"
    /\ LET r == find_all_registry_objects(scene, export_structure_names)
       IN  /\ found_objects' = r.found
           /\ missing_names' = r.missing
           /\ pc' = IF no_structures_found(r.found) THEN "aborted" ELSE "capture"
           /\ cidx' = IF no_structures_found(r.found) THEN cidx ELSE 1
           /\ layers' = IF no_structures_found(r.found) THEN layers
                        ELSE compute_structure_layers(r.found)
    /\ UNCHANGED << inputs, calls, drift, all_structure_names, bilateral_pairs,
                    export_structure_names, skipped_right,
                    precomputed_transforms,
                    export_collection, pidx, used_ids, export_objects,
                    structures, stats, processed, mutations, outputs, report >>

\* one iteration of precompute_world_transforms
CaptureTransform ==
    /\ pc = "capture"
    /\ ~precompute_loop_done(cidx, found_objects)
    /\ LET e == found_objects[cidx]
       IN  precomputed_transforms' =
               dict_set(precomputed_transforms, e.key,
                        precompute_entry(scene, drift, e.val))
    /\ cidx' = cidx + 1
    /\ UNCHANGED << pc, inputs, calls, layers, drift, all_structure_names, bilateral_pairs,
                    export_structure_names, skipped_right, found_objects,
                    missing_names,
                    export_collection, pidx, used_ids, export_objects,
                    structures, stats, processed, mutations, outputs, report >>

\* create_export_collection: the first mutation of the scene
CreateExportCollection ==
    /\ pc = "capture"
    /\ precompute_loop_done(cidx, found_objects)
    /\ export_collection' = TRUE
    /\ mutations' = mutations + 1
    /\ drift' \in HostDrifts(scene)
    /\ pidx' = 1
    /\ pc' = "process"
    /\ UNCHANGED << inputs, calls, layers, all_structure_names, bilateral_pairs,
                    export_structure_names, skipped_right, found_objects,
                    missing_names, precomputed_transforms, cidx,
                    used_ids, export_objects,
                    structures, stats, processed, outputs, report >>

\* variant: a failure is not counted
count_failed_dropped(st) == st

\* the except branch of the loop body: stats["failed"] += 1
count_failed(st) == [st EXCEPT !.failed = @ + 1]

\* one iteration of the per-structure loop that reaches its end
ProcessStructure ==
    /\ pc = "process"
    /\ pidx <= Len(found_objects)
    /\ LET registry_name == found_objects[pidx].key
           original == found_objects[pidx].val
           precomputed_transform == dict_get(precomputed_transforms, registry_name)
       IN  /\ raising_step(scene, faults, original) = "none"
           /\ LET made == IF needs_location_sum_fix(scene[original].name)
                          THEN process_broken_parent_object(scene, drift, original)
                          ELSE process_standard_object(scene, drift, original,
                                                       precomputed_transform)
                  copy == IF transform_apply_raises(faults, original)
                          THEN transform_warning(made) ELSE made
                  world_center == metadata_center(precomputed_transform, copy)
                  is_bilateral == is_bilateral_structure(registry_name, bilateral_pairs)
                  base_id == normalize_mesh_id(registry_name, is_bilateral)
                  mesh_id == allocate_mesh_id(base_id, used_ids)
                  center_threejs == blender_to_threejs(world_center)
                  anat_type == get_anatomical_type(registry_name)
                  region == dict_get(export_structure_names, registry_name)[1]
                  layer == record_layer(layers, registry_name)
              IN  /\ used_ids' = used_ids \cup { mesh_id }
                  /\ structures' =
                         dict_set(structures, mesh_id,
                                  structure_metadata(mesh_id, registry_name,
                                                     anat_type, layer, region,
                                                     is_bilateral, center_threejs))
                  /\ stats' = count_structure(stats, registry_name, is_bilateral)
                  /\ export_objects' = Append(export_objects,
                         [name |-> mesh_id, original |-> original,
                          baked |-> copy.baked, location |-> copy.location])
                  /\ processed' = Append(processed,
                         [name |-> registry_name, outcome |-> "exported",
                          step |-> IF transform_apply_raises(faults, original)
                                   THEN "transform_apply" ELSE "none",
                          path |-> copy.path, current_pos |-> copy.current_pos,
                          baked |-> copy.baked, base_id |-> base_id,
                          mesh_id |-> mesh_id])
    /\ mutations' = mutations + 1
    /\ drift' \in HostDrifts(scene)
    /\ pidx' = pidx + 1
    /\ scene' = scene_after_processing(scene, found_objects[pidx].val)
    /\ UNCHANGED << pc, registry_exists, registry, faults, calls, layers,
                    all_structure_names, bilateral_pairs,
                    export_structure_names, skipped_right, found_objects,
                    missing_names, precomputed_transforms, cidx,
                    export_collection, outputs, report >>

\* one iteration whose body raises: "Failed to process", stats["failed"] += 1.
\* A raise of select_set leaves the scene as it was; a raise after the
\* duplicate leaves a copy that is not in export_objects.
ProcessStructureFails ==
    /\ pc = "process"
    /\ pidx <= Len(found_objects)
    /\ LET step == raising_step(scene, faults, found_objects[pidx].val)
       IN  /\ step # "none"
           /\ processed' = Append(processed,
                  [name |-> found_objects[pidx].key, outcome |-> "failed",
                   step |-> step,
                   path |-> "none", current_pos |-> None, baked |-> None,
                   base_id |-> None, mesh_id |-> None])
           /\ mutations' = IF step = "select_set" THEN mutations ELSE mutations + 1
           /\ drift' \in IF step = "select_set" THEN { drift } ELSE HostDrifts(scene)
    /\ stats' = count_failed(stats)
    /\ pidx' = pidx + 1
    /\ UNCHANGED << pc, inputs, calls, layers, all_structure_names, bilateral_pairs,
                    export_structure_names, skipped_right, found_objects,
                    missing_names, precomputed_transforms, cidx,
                    export_collection, used_ids, export_objects,
                    structures, outputs, report >>

\* "No valid objects to export!": cleanup, export_torso returns None
FinishNoObjects ==
    /\ pc = "process"
    /\ pidx > Len(found_objects)
    /\ export_objects = << >>
    /\ export_collection' = FALSE
    /\ mutations' = mutations + 1
    /\ pc' = "aborted"
    /\ UNCHANGED << inputs, calls, layers, drift, all_structure_names, bilateral_pairs,
                    export_structure_names, skipped_right, found_objects,
                    missing_names, precomputed_transforms, cidx,
                    pidx, used_ids, export_objects,
                    structures, stats, processed, outputs, report >>

\* glTF export, metadata dump, cleanup and the returned ExportReport
FinishExport ==
    /\ pc = "process"
    /\ pidx > Len(found_objects)
    /\ export_objects # << >>
    /\ outputs' = << [gltf |-> [i \in DOMAIN export_objects |-> export_objects[i].name],
                      metadata |-> [bilateral_count |-> stats.bilateral,
                                    midline_count |-> stats.midline,
                                    structures |-> structures]] >>
    /\ export_collection' = FALSE
    /\ mutations' = mutations + 1
    /\ report' = << [total_in_registry |-> Len(all_structure_names),
                     found_in_blender |-> Len(found_objects),
                     exported |-> Len(structures),
                     bilateral_count |-> stats.bilateral,
                     midline_count |-> stats.midline,
                     missing |-> missing_names,
                     skipped_right |-> skipped_right,
                     warnings |-> << >>] >>
    /\ pc' = "done"
    /\ UNCHANGED << inputs, calls, layers, drift, all_structure_names, bilateral_pairs,
                    export_structure_names, skipped_right, found_objects,
                    missing_names, precomputed_transforms, cidx,
                    pidx, used_ids, export_objects,
                    structures, stats, processed >>

Next ==
    \/ LoadRegistryMissing
    \/ LoadRegistry
    \/ AnalyzePairs
    \/ FilterForExport
    \/ FindObjects
    \/ CaptureTransform
    \/ CreateExportCollection
    \/ ProcessStructure
    \/ ProcessStructureFails
    \/ FinishNoObjects
    \/ FinishExport

Spec == Init /\ [][Next]_vars

\* export_torso on the pelvis registries and scene
InitPelvis ==
    /\ InitRun
    /\ call_name = None
    /\ call_log = EmptyCallLog
    /\ \/ /\ registry_exists = FALSE
          /\ registry = << >>
          /\ faults = NoFaults(ScenePelvis)
       \/ /\ registry_exists = TRUE
          /\ \E ns \in PelvisRegistries : registry = RegistryFile(ns)
          /\ faults \in PelvisFaults
    /\ scene = ScenePelvis

----------------------------------------------------------------------------
(* Direct calls of the name functions *)

\* a session of direct calls on one name, with the given scene loaded and one
\* of the given registry files read
InitCallsFor(names, sc, regs) ==
    /\ pc = "call"
    /\ call_name \in names
    /\ call_log = EmptyCallLog
    /\ registry \in regs
    /\ registry_exists = (registry # << >>)
    /\ scene = sc
    /\ faults = NoFaults(sc)
    /\ drift = Zero3
    /\ all_structure_names = << >>
    /\ bilateral_pairs = << >>
    /\ export_structure_names = << >>
    /\ skipped_right = << >>
    /\ found_objects = << >>
    /\ missing_names = << >>
    /\ layers = << >>
    /\ precomputed_transforms = << >>
    /\ cidx = 0
    /\ export_collection = FALSE
    /\ pidx = 0
    /\ used_ids = {}
    /\ export_objects = << >>
    /\ structures = << >>
    /\ stats = EmptyStats
    /\ processed = << >>
    /\ mutations = 0
    /\ outputs = None
    /\ report = None

InitCallsIn(names, sc) == InitCallsFor(names, sc, { << >> })

InitCallsOn(names) == InitCallsIn(names, SceneBare)

run_vars ==
    << pc, inputs, drift, all_structure_names, bilateral_pairs,
       export_structure_names, skipped_right, found_objects, missing_names,
       layers, precomputed_transforms, cidx, export_collection, pidx, used_ids,
       export_objects, structures, stats, processed, mutations, outputs,
       report >>

CallGetAnatomicalType ==
    /\ pc = "call"
    /\ call_log' = [call_log EXCEPT
                        !.types = @ \cup { get_anatomical_type(call_name) }]
    /\ UNCHANGED << run_vars, call_name >>

\* compute_structure_layers on the one name
CallComputeStructureLayers ==
    /\ pc = "call"
    /\ LET r == compute_structure_layers(<< [key |-> call_name, val |-> 1] >>)
       IN  call_log' = [call_log EXCEPT
                           !.layers = @ \cup { dict_get(r, call_name)[1] }]
    /\ UNCHANGED << run_vars, call_name >>

CallNormalizeMeshId ==
    /\ pc = "call"
    /\ \E is_bilateral \in BOOLEAN :
           call_log' = [call_log EXCEPT
               !.ids = @ \cup { << is_bilateral,
                                   normalize_mesh_id(call_name, is_bilateral) >> }]
    /\ UNCHANGED << run_vars, call_name >>

\* runs of export_torso on the pelvis, and direct calls of the classifiers
InitAnatomy == InitPelvis \/ InitCallsOn(WordNames)

NextAnatomy ==
    \/ Next
    \/ CallGetAnatomicalType
    \/ CallComputeStructureLayers

SpecAnatomy == InitAnatomy /\ [][NextAnatomy]_vars

\* normalize_mesh_id on the name with a side suffix appended, under both flags
CallNormalizeSided ==
    /\ pc = "call"
    /\ \E suffix \in { DotL, DotR } :
           call_log' = [call_log EXCEPT
               !.sided = @ \cup { [suffix |-> suffix,
                                   bilateral |-> normalize_mesh_id(call_name \o suffix, TRUE),
                                   single |-> normalize_mesh_id(call_name \o suffix, FALSE)] }]
    /\ UNCHANGED << run_vars, call_name >>

\* direct calls of normalize_mesh_id
InitIds == InitCallsOn(CharNames)

SpecIds == InitIds /\ [][CallNormalizeMeshId]_vars

\* get_all_structure_names on the registry read: the mapping returned, or
\* the TypeError raised by the loop
CallGetAllStructureNames ==
    /\ pc = "call"
    /\ call_log' = [call_log EXCEPT
           !.names = @ \cup
               { IF get_all_structure_names_raises(registry)
                 THEN [raised |-> TRUE, structures |-> << >>]
                 ELSE [raised |-> FALSE,
                       structures |-> get_all_structure_names(registry)] }]
    /\ UNCHANGED << run_vars, call_name >>

\* direct calls of the loader on registry files of every shape
InitRegistry == InitCallsFor({ None }, SceneBare, RegistryShapes)

SpecRegistry == InitRegistry /\ [][CallGetAllStructureNames]_vars

\* find_structure_in_blender on the one name
CallFindStructure ==
    /\ pc = "call"
    /\ call_log' = [call_log EXCEPT
                        !.found = @ \cup { find_structure_in_blender(scene, call_name) }]
    /\ UNCHANGED << run_vars, call_name >>

\* direct lookups of short names in a loaded scene
InitResolve == InitCallsIn(CharNames, SceneChars)

SpecResolve == InitResolve /\ [][CallFindStructure]_vars

\* direct calls of normalize_mesh_id on a name as it is and with a side suffix
NextSides == CallNormalizeMeshId \/ CallNormalizeSided

SpecSides == InitIds /\ [][NextSides]_vars

----------------------------------------------------------------------------
(* Properties *)

registry_names == dict_keyset(all_structure_names)

\* base names with both a left and a right entry in the registry
complete_bases ==
    { extract_side_and_base(n).base : n \in
        { m \in registry_names :
            /\ extract_side_and_base(m).side # "midline"
            /\ (extract_side_and_base(m).base \o DotL) \in registry_names
            /\ (extract_side_and_base(m).base \o DotR) \in registry_names } }

midline_names ==
    { n \in registry_names : extract_side_and_base(n).side = "midline" }

orphan_names ==
    { n \in registry_names :
        /\ extract_side_and_base(n).side # "midline"
        /\ extract_side_and_base(n).base \notin complete_bases }

records == [i \in DOMAIN structures |-> structures[i].val]

exported_steps == { i \in DOMAIN processed : processed[i].outcome = "exported" }

filtered_done == pc \notin { "load", "pairs", "filter" }

\* the object a registry name was resolved to
found_object(name) == dict_get(found_objects, name)[1]

\* ids issued before step i of the loop
issued_before(i) == { processed[k].mesh_id : k \in { m \in exported_steps : m < i } }

\* C1: no two export records share a meshId: every id allocated in the
\* per-structure loop differs from every id allocated earlier in the run, and
\* every allocated id has a record of its own (no record replaced another).
C1_UniqueMeshIds ==
    /\ \A j \in exported_steps : processed[j].mesh_id \notin issued_before(j)
    /\ \A i, j \in DOMAIN structures :
           i # j => records[i].meshId # records[j].meshId
    /\ Len(structures) = Cardinality(exported_steps)
    /\ { records[i].meshId : i \in DOMAIN structures }
           = { processed[j].mesh_id : j \in exported_steps }
    /\ used_ids = { processed[j].mesh_id : j \in exported_steps }

\* C1 witness: an earlier suffixed id (base_k) is the un-suffixed
\* normalization of a later name, and both were exported.
C1_Witness ==
    \E i, j \in exported_steps :
        /\ i < j
        /\ processed[i].mesh_id # processed[i].base_id
        /\ processed[i].mesh_id = processed[j].base_id
        /\ processed[j].mesh_id # processed[i].mesh_id

\* C2: once any scene mutation has been issued, the snapshot of every
\* resolved structure has been captured, and it holds the world matrix and
\* geometry center of the scene as it was before the first mutation.
C2_CaptureBeforeMutation ==
    mutations > 0 =>
        \A i \in DOMAIN found_objects :
            /\ dict_has(precomputed_transforms, found_objects[i].key)
            /\ dict_get(precomputed_transforms, found_objects[i].key)[1]
                   = precompute_entry(scene, Zero3, found_objects[i].val)

\* C2 witness: several structures resolved, mutations issued and the host
\* displaced the evaluated transforms of parented objects.
C2_Witness ==
    /\ mutations > 1
    /\ Len(found_objects) >= 2
    /\ drift # Zero3

\* squared distance between the translation read at processing time and the
\* translation of the snapshot, for step i of the loop
step_diff2(i) ==
    VLen2(VSub(processed[i].current_pos,
               dict_get(precomputed_transforms, processed[i].name)[1].matrix))

\* C3: the corrective path is taken exactly when the distance between the
\* current world translation and the snapshot translation is strictly
\* greater than the tolerance; at the tolerance or below the standard path
\* is taken (the copy keeps the current world transform).
C3_CorrectiveIffAboveTolerance ==
    \A i \in exported_steps :
        processed[i].path \in { "standard", "corrective" } =>
            /\ (processed[i].path = "corrective")
                   <=> (step_diff2(i) > Tolerance * Tolerance)
            /\ processed[i].path = "corrective" =>
                   processed[i].baked =
                       dict_get(precomputed_transforms, processed[i].name)[1].matrix
            /\ processed[i].path = "standard" =>
                   processed[i].baked = processed[i].current_pos

\* C3 witness: one run took the standard path at a distance of exactly the
\* tolerance and the corrective path just above it.
C3_Witness ==
    /\ \E i \in exported_steps :
           /\ processed[i].path = "standard"
           /\ step_diff2(i) = Tolerance * Tolerance
    /\ \E i \in exported_steps :
           /\ processed[i].path = "corrective"
           /\ step_diff2(i) > Tolerance * Tolerance

\* C4: every snapshot keeps the values of the capture phase, and the center
\* of every export record is the conversion of the geometry center captured
\* for its structure, whatever the processing of this or earlier structures
\* did to the live transforms.
C4_CenterFromSnapshot ==
    /\ \A k \in DOMAIN precomputed_transforms :
           precomputed_transforms[k].val =
               precompute_entry(scene, Zero3,
                                found_object(precomputed_transforms[k].key))
    /\ \A i \in DOMAIN structures :
           /\ dict_has(precomputed_transforms, records[i].originalName)
           /\ records[i].center =
                  blender_to_threejs(
                      get_world_geometry_center(
                          scene, Zero3, found_object(records[i].originalName)))

\* C4 witness: a record exists for a structure whose live transform had
\* moved away from its snapshot when it was processed, on both paths.
C4_Witness ==
    /\ \E i \in exported_steps :
           /\ processed[i].path = "corrective"
           /\ \E r \in DOMAIN structures :
                  records[r].originalName = processed[i].name
    /\ \E i \in exported_steps :
           /\ processed[i].path = "standard"
           /\ step_diff2(i) > 0
           /\ \E r \in DOMAIN structures :
                  records[r].originalName = processed[i].name

\* C5: for any registry pair (L, R) with the same base name, L ending in
\* '.l' and R in '.r', exactly one of L and R is in the export set.
C5_ExactlyOneOfPair ==
    filtered_done =>
        \A L, R \in registry_names :
            ( /\ str_endswith(L, DotL)
              /\ str_endswith(R, DotR)
              /\ str_drop_last(L, 2) = str_drop_last(R, 2) ) =>
                Cardinality({ L, R } \cap dict_keyset(export_structure_names)) = 1

\* C5 witness: the filter has run on a registry that holds a pair.
C5_Witness ==
    /\ pc = "find"
    /\ \E L, R \in registry_names :
           /\ str_endswith(L, DotL)
           /\ str_endswith(R, DotR)
           /\ str_drop_last(L, 2) = str_drop_last(R, 2)
           /\ L \in dict_keyset(export_structure_names)

\* C6: a record carries a mirroredCenter iff its bilateral flag is true, and
\* then it is the record's center with X negated, Y and Z unchanged.
C6_MirroredCenter ==
    \A i \in DOMAIN structures :
        /\ (records[i].mirroredCenter # None) <=> records[i].bilateral
        /\ records[i].bilateral =>
               /\ records[i].mirroredCenter[1][1] = -records[i].center[1]
               /\ records[i].mirroredCenter[1][2] = records[i].center[2]
               /\ records[i].mirroredCenter[1][3] = records[i].center[3]

\* C6 witness: a bilateral record off the mirror plane next to a record that
\* is not bilateral.
C6_Witness ==
    /\ \E i \in DOMAIN structures :
           /\ records[i].bilateral
           /\ records[i].center[1] # 0
           /\ records[i].center[2] # 0
    /\ \E i \in DOMAIN structures : ~records[i].bilateral

\* C7: every record with bilateral = true is the left member of a base name
\* that has both a left and a right entry in the registry.
C7_BilateralIsLeftOfPair ==
    \A i \in DOMAIN structures :
        records[i].bilateral =>
            /\ str_endswith(records[i].originalName, DotL)
            /\ (records[i].baseName \o DotL) \in registry_names
            /\ (records[i].baseName \o DotR) \in registry_names

\* C8: bilateral_pairs holds a base exactly when the registry holds both
\* base+'.l' and base+'.r'; skipped is exactly the '.r' members of complete
\* pairs and the export set is every other name (disjoint, union all names).
C8_PairsAndFilter ==
    /\ pc \notin { "load", "pairs" } =>
           dict_keyset(bilateral_pairs) =
               { b \in { extract_side_and_base(n).base : n \in registry_names } :
                   (b \o DotL) \in registry_names /\ (b \o DotR) \in registry_names }
    /\ filtered_done =>
           LET skipped == seq_set(skipped_right)
               kept == dict_keyset(export_structure_names)
           IN  /\ skipped = { n \in registry_names :
                                /\ str_endswith(n, DotR)
                                /\ (str_drop_last(n, 2) \o DotL) \in registry_names }
               /\ kept = registry_names \ skipped
               /\ kept \cap skipped = {}
               /\ kept \cup skipped = registry_names
               /\ Len(skipped_right) + Len(export_structure_names)
                      = Len(all_structure_names)

\* C8 witness: the filter has run on a registry with a complete pair and a
\* midline name, and dropped the right member.
C8_Witness ==
    /\ pc = "find"
    /\ Len(bilateral_pairs) = 1
    /\ Len(skipped_right) = 1
    /\ midline_names # {}
    /\ Len(export_structure_names) >= 2

\* C9: when every name resolves and every structure is processed, the run
\* produces one record per midline name, per complete pair and per orphan,
\* bilateral_count is the number of complete pairs and midline_count the
\* number of midline names.
C9_CountsMatchRegistry ==
    ( /\ pc = "done"
      /\ missing_names = << >>
      /\ stats.failed = 0 ) =>
        /\ Len(structures) = Cardinality(midline_names)
                             + Cardinality(complete_bases)
                             + Cardinality(orphan_names)
        /\ report[1].bilateral_count = Cardinality(complete_bases)
        /\ report[1].midline_count = Cardinality(midline_names)
        /\ outputs[1].metadata.bilateral_count = Cardinality(complete_bases)
        /\ outputs[1].metadata.midline_count = Cardinality(midline_names)

\* C10: a structure receives its normalized id when that id has not been
\* issued in this run, and otherwise base_k for the smallest k >= 1 such that
\* base_k has not been issued.  Of two differently named structures with one
\* normalized id that meet no id issued to another structure, the one
\* processed first has the un-suffixed id and the second has it followed by
\* '_1': the ids follow the processing (registry) order.
C10_SmallestFreeSuffix ==
    /\ \A j \in exported_steps :
           LET base == processed[j].base_id
               used == issued_before(j)
           IN  IF base \notin used
               THEN processed[j].mesh_id = base
               ELSE \E k \in 1..(Cardinality(used) + 1) :
                        /\ processed[j].mesh_id = suffixed_id(base, k)
                        /\ suffixed_id(base, k) \notin used
                        /\ \A m \in 1..(k - 1) : suffixed_id(base, m) \in used
    /\ \A i, j \in exported_steps :
           ( /\ i < j
             /\ processed[i].name # processed[j].name
             /\ processed[i].base_id = processed[j].base_id
             /\ processed[i].base_id \notin issued_before(i)
             /\ suffixed_id(processed[j].base_id, 1) \notin issued_before(j) ) =>
               /\ processed[i].mesh_id = processed[i].base_id
               /\ processed[j].mesh_id = suffixed_id(processed[j].base_id, 1)

\* C10 witness: two differently named structures with one normalized id,
\* the first with the un-suffixed id and the second with the suffix _1, and
\* a third collider that received the suffix _2.
C10_Witness ==
    \E i, j, k \in exported_steps :
        /\ i < j
        /\ j < k
        /\ processed[i].name # processed[j].name
        /\ processed[i].base_id = processed[j].base_id
        /\ processed[k].base_id = processed[i].base_id
        /\ processed[i].mesh_id = processed[i].base_id
        /\ processed[j].mesh_id = suffixed_id(processed[j].base_id, 1)
        /\ processed[k].mesh_id = suffixed_id(processed[k].base_id, 2)

\* the substrings of the known-defective structures
known_defective_substrings ==
    Kw(<< "inferior pubic ligament", "superior pubic ligament", "interpubic disc" >>)

is_known_defective(name) == any_kw_in(known_defective_substrings, str_lower(name))

\* C11: every processed structure whose registry name or scene name holds a
\* known-defective substring is processed by the location-sum path, never by
\* the standard or the corrective path.
C11_DefectiveTakesLocationSum ==
    \A i \in exported_steps :
        ( \/ is_known_defective(processed[i].name)
          \/ is_known_defective(scene[found_object(processed[i].name)].name) ) =>
            processed[i].path = "location_sum"

\* a mesh-bearing scene node matches the name, exactly or after normalization
has_matching_node(name) ==
    \E o \in DOMAIN scene :
        /\ scene[o].type = "MESH"
        /\ \/ scene[o].name = name
           \/ scene_normalized(scene[o].name) = scene_normalized(name)

resolved_done == pc \notin { "load", "pairs", "filter", "find" }

terminated == pc \in { "done", "aborted" }

\* C12 (as stated): every registry entry with no matching scene node is in
\* the report's missing list, no resolved entry is, and a run in which an
\* entry resolves ends with a report.
C12_EveryUnmatchedEntryReported ==
    /\ pc = "done" =>
           /\ \A n \in registry_names :
                  ~has_matching_node(n) => n \in seq_set(report[1].missing)
           /\ \A n \in seq_set(report[1].missing) : ~has_matching_node(n)
    /\ ( /\ terminated
         /\ \E n \in registry_names : has_matching_node(n) ) =>
           pc = "done" /\ report # None

\* C12 (amended): the names looked up are those of the export set; each of
\* them with no matching scene node is in missing and in the report's missing
\* list, no resolved name is, and the run ends with a report exactly when at
\* least one resolved structure was processed without failure.
C12_MissingOfExportSet ==
    /\ resolved_done =>
           /\ seq_set(missing_names) =
                  { n \in dict_keyset(export_structure_names) : ~has_matching_node(n) }
           /\ dict_keyset(found_objects) =
                  { n \in dict_keyset(export_structure_names) : has_matching_node(n) }
           /\ seq_set(missing_names) \cap dict_keyset(found_objects) = {}
    /\ pc = "done" => report # None /\ report[1].missing = missing_names
    /\ terminated => ( (pc = "done" /\ report # None) <=> exported_steps # {} )
    /\ pc = "aborted" => report = None

\* C12 witness: a finished run whose report lists a missing name, next to a
\* structure that was exported and one whose processing failed.
C12_Witness ==
    /\ pc = "done"
    /\ report[1].missing # << >>
    /\ exported_steps # {}
    /\ stats.failed > 0

\* the two fatal aborts: registry file absent, or no export-set entry resolved
fatal_abort == pc = "aborted" /\ (~registry_exists \/ found_objects = << >>)

\* C13: a fatal abort leaves scene and outputs untouched. With the registry
\* absent the run ends before any lookup; with no entry resolved it ends
\* before the capture. In both cases there is no export collection, no node
\* was duplicated or mutated, no file was written and no report is returned.
C13_FatalAbortTouchesNothing ==
    fatal_abort =>
        /\ ~registry_exists =>
               /\ all_structure_names = << >>
               /\ export_structure_names = << >>
               /\ missing_names = << >>
        /\ precomputed_transforms = << >>
        /\ cidx = 0
        /\ ~export_collection
        /\ mutations = 0
        /\ drift = Zero3
        /\ pidx = 0
        /\ processed = << >>
        /\ export_objects = << >>
        /\ structures = << >>
        /\ used_ids = {}
        /\ outputs = None
        /\ report = None

\* C13 witness: a run over a readable, non-empty registry none of whose
\* export-set entries resolves has ended.
C13_Witness ==
    /\ fatal_abort
    /\ registry_exists
    /\ export_structure_names # << >>
    /\ Len(missing_names) = Len(export_structure_names)

\* a call of the loop body raises for the object of this name: select_set on
\* an object outside the view layer, or the link into the export collection
raises_in_loop_body(name) ==
    LET o == found_object(name)
    IN  ~scene[o].in_view_layer \/ faults[o] = "link"

raised_steps == { i \in DOMAIN processed : raises_in_loop_body(processed[i].name) }

loop_over == pc \in { "done", "aborted" } /\ found_objects # << >>

\* C14: when the body of the per-structure loop raises for a structure, the
\* failure is counted, the structure has no export record and no copy among
\* the exported objects, and every later structure is still processed; the
\* run aborts after the loop only if no structure was processed successfully.
C14_FailureIsContained ==
    /\ stats.failed = Cardinality(raised_steps)
    /\ \A i \in raised_steps :
           /\ \A k \in DOMAIN records : records[k].originalName # processed[i].name
           /\ \A k \in DOMAIN export_objects :
                  export_objects[k].original # found_object(processed[i].name)
    /\ Len(export_objects) = Len(processed) - Cardinality(raised_steps)
    /\ Len(structures) = Len(export_objects)
    /\ pc = "process" => Len(processed) = pidx - 1
    /\ \A i \in DOMAIN processed : processed[i].name = found_objects[i].key
    /\ loop_over =>
           /\ Len(processed) = Len(found_objects)
           /\ pc = "aborted" <=> raised_steps = DOMAIN processed

\* C14 witness: a finished run in which the link of one structure raised and
\* a later structure was exported.
C14_Witness ==
    /\ pc = "done"
    /\ \E i, j \in DOMAIN processed :
           /\ i < j
           /\ raises_in_loop_body(processed[i].name)
           /\ faults[found_object(processed[i].name)] = "link"
           /\ ~raises_in_loop_body(processed[j].name)
           /\ \E k \in DOMAIN records : records[k].originalName = processed[j].name

\* the names the returned report lists, in any of its list fields
report_names ==
    seq_set(report[1].missing) \cup seq_set(report[1].skipped_right)
        \cup seq_set(report[1].warnings)

\* C15: the report of a completed run enumerates every missing name, every
\* incomplete bilateral pair and every structure whose processing failed.
C15_ReportEnumeratesProblems ==
    pc = "done" =>
        /\ seq_set(missing_names) \subseteq seq_set(report[1].missing)
        /\ \A n \in orphan_names :
               n \in report_names \/ extract_side_and_base(n).base \in report_names
        /\ \A i \in DOMAIN processed :
               processed[i].outcome = "failed" => processed[i].name \in report_names

side_tag(name) ==
    IF extract_side_and_base(name).side = "left" THEN << "_", "l" >> ELSE << "_", "r" >>

\* C16: a left or right entry whose counterpart is absent from the registry
\* is never dropped by the filter; once processed it is exported with
\* bilateral = false, no mirroredCenter and an id ending in its side tag, and
\* the incomplete pair is recorded as a warning in the report.
C16_OrphanExportedWithWarning ==
    /\ filtered_done =>
           \A n \in orphan_names :
               /\ n \in dict_keyset(export_structure_names)
               /\ n \notin seq_set(skipped_right)
    /\ \A k \in DOMAIN records :
           records[k].originalName \in orphan_names =>
               /\ ~records[k].bilateral
               /\ records[k].mirroredCenter = None
               /\ str_endswith(records[k].meshId, side_tag(records[k].originalName))
    /\ pc = "done" =>
           \A n \in orphan_names :
               \E w \in seq_set(report[1].warnings) :
                   w = n \/ w = extract_side_and_base(n).base

has_keyword_of(keywords, name) == any_kw_in(keywords, str_lower(name))

has_tendon_keyword(name) == has_keyword_of(Kw(<< "tendon", "sheath" >>), name)

tendon_and_muscle(name) ==
    has_tendon_keyword(name) /\ has_keyword_of(muscle_keywords, name)

\* C17 (as stated): a name containing both a tendon or tendon-sheath keyword
\* and a muscle keyword classifies as tendon, whatever else it contains.
C17_TendonBeatsMuscleAlways ==
    (pc = "call" /\ tendon_and_muscle(call_name)) =>
        call_log.types \subseteq { "tendon" }

\* C17 (amended): such a name never classifies as muscle; it classifies as
\* tendon unless it also contains a fascia keyword, and then as fascia.
C17_TendonBeatsMuscle ==
    (pc = "call" /\ tendon_and_muscle(call_name)) =>
        /\ "muscle" \notin call_log.types
        /\ call_log.types \subseteq
               { IF has_keyword_of(fascia_keywords, call_name)
                 THEN "fascia" ELSE "tendon" }

\* C17 witness: a name with a tendon keyword, a muscle keyword and a capsule
\* keyword was classified as tendon.
C17_Witness ==
    /\ pc = "call"
    /\ tendon_and_muscle(call_name)
    /\ has_keyword_of(capsule_keywords, call_name)
    /\ call_log.types = { "tendon" }

TenTypes ==
    { "bone", "muscle", "ligament", "tendon", "fascia", "cartilage",
      "membrane", "bursa", "capsule", "other" }

\* the keyword groups in the order of the cascade, each with its type
cascade_order ==
    << << fascia_keywords, "fascia" >>, << tendon_keywords, "tendon" >>,
       << capsule_keywords, "capsule" >>, << muscle_keywords, "muscle" >>,
       << bone_keywords, "bone" >>, << ligament_keywords, "ligament" >>,
       << cartilage_keywords, "cartilage" >>, << membrane_keywords, "membrane" >>,
       << bursa_keywords, "bursa" >>, << capsule_of_keywords, "capsule" >> >>

\* the type of the first group from g on with a keyword in the lowercased name
RECURSIVE first_match_from(_, _)
first_match_from(name_lower, g) ==
    IF g > Len(cascade_order) THEN "other"
    ELSE IF any_kw_in(cascade_order[g][1], name_lower) THEN cascade_order[g][2]
    ELSE first_match_from(name_lower, g + 1)

first_match_type(name) == first_match_from(str_lower(name), 1)

matching_groups(name) ==
    LET name_lower == str_lower(name)
    IN  { g \in DOMAIN cascade_order : any_kw_in(cascade_order[g][1], name_lower) }

\* C18: the classifier is total and deterministic: every call returns one of
\* the ten types, namely the type of the first keyword group, in the order
\* fascia, tendon, capsule, muscle, bone, ligament, cartilage, membrane, bursa,
\* capsule-of, that matches the name, and 'other' when none matches; repeated
\* calls with one name return one type.
C18_FirstMatchingGroup ==
    /\ pc = "call" =>
           /\ \A t \in call_log.types :
                  t \in TenTypes /\ t = first_match_type(call_name)
           /\ Cardinality(call_log.types) <= 1
    /\ \A k \in DOMAIN records :
           /\ records[k].type \in TenTypes
           /\ records[k].type = first_match_type(records[k].originalName)

\* C18 witness: a name matching several groups, none of them the first of the
\* cascade, was classified.
C18_Witness ==
    /\ pc = "call"
    /\ call_log.types # {}
    /\ LET mg == matching_groups(call_name)
       IN  Cardinality(mg) >= 3 /\ 1 \notin mg

\* the table of C19
layer_of(anat_type, name) ==
    CASE anat_type \in { "bone", "cartilage" } -> 0
      [] anat_type \in { "ligament", "membrane" } -> 1
      [] anat_type = "fascia" -> 4
      [] anat_type = "bursa" -> 3
      [] anat_type = "muscle" ->
             IF has_keyword_of(deep_muscle_keywords, name) THEN 1
             ELSE IF has_keyword_of(intermediate_muscle_keywords, name) THEN 2
             ELSE 3
      [] OTHER -> 3

\* C19: the layer of a structure is in 0..4 and depends on its type and name
\* only: bone and cartilage 0, ligament and membrane 1, fascia 4, bursa 3, a
\* muscle 1 with a deep keyword, else 2 with an intermediate keyword, else 3,
\* every other type 3; the layer of each export record is this function of
\* the record's type and originalName.
C19_LayerOfTypeAndName ==
    /\ pc = "call" =>
           \A l \in call_log.layers :
               /\ l \in 0..4
               /\ l = layer_of(get_anatomical_type(call_name), call_name)
    /\ \A k \in DOMAIN records :
           /\ records[k].layer \in 0..4
           /\ records[k].layer = layer_of(records[k].type, records[k].originalName)

\* C19 witness: a muscle name with both a deep and an intermediate keyword
\* was given layer 1.
C19_Witness ==
    /\ pc = "call"
    /\ call_log.layers = { 1 }
    /\ call_log.types = { "muscle" }
    /\ has_keyword_of(deep_muscle_keywords, call_name)
    /\ has_keyword_of(intermediate_muscle_keywords, call_name)

\* every space, hyphen, period and parenthesis replaced by the separator
separators_replaced(clean) ==
    LET c1 == str_replace_char(clean, " ", << "_" >>)
        c2 == str_replace_char(c1, "-", << "_" >>)
        c3 == str_replace_char(c2, ".", << "_" >>)
        c4 == str_replace_char(c3, "(", << "_" >>)
    IN  str_replace_char(c4, ")", << "_" >>)

has_side_suffix(name) ==
    str_endswith(str_lower(name), DotL) \/ str_endswith(str_lower(name), DotR)

well_separated(id) ==
    /\ \A i \in 1..(Len(id) - 1) : ~(id[i] = "_" /\ id[i + 1] = "_")
    /\ id # << >> => id[1] # "_" /\ id[Len(id)] # "_"

\* C20: the id of a name is the lowercased name with every whitespace,
\* hyphen, period and parenthesis replaced by a single separator '_'; for
\* every input the id has no two adjacent separators and neither starts nor
\* ends with a separator.
C20_NormalizeIdSeparators ==
    pc = "call" =>
        \A c \in call_log.ids :
            /\ well_separated(c[2])
            /\ ~has_side_suffix(call_name) =>
                   c[2] = str_strip(collapse_underscores(
                              separators_replaced(str_lower(call_name))), "_")

\* the normalized name: lowercased, separators replaced, collapsed, stripped
normalized_base(b) == normalize_chars(str_lower(b))

\* C21: for any base name b the ids of b.l and b.r under isBilateral = true
\* are equal and are the normalized base without a side tag; under
\* isBilateral = false they differ and are the normalized base followed by
\* _l and _r; a name without a side suffix has one id under both flags.
C21_SideSuffixHandling ==
    pc = "call" =>
        /\ \A c \in call_log.sided :
               /\ c.bilateral = normalized_base(call_name)
               /\ c.single = normalized_base(call_name)
                                 \o (IF c.suffix = DotL THEN << "_", "l" >>
                                     ELSE << "_", "r" >>)
        /\ \A c, d \in call_log.sided :
               /\ c.bilateral = d.bilateral
               /\ c.suffix # d.suffix => c.single # d.single
        /\ ~has_side_suffix(call_name) =>
               \A c, d \in call_log.ids : c[2] = d[2]

\* C21 witness: a base name with separators was normalized with both side
\* suffixes and, as it is, under both flags.
C21_Witness ==
    /\ pc = "call"
    /\ Cardinality(call_log.sided) = 2
    /\ Cardinality(call_log.ids) = 2
    /\ ~has_side_suffix(call_name)
    /\ Len(normalized_base(call_name)) = 3
    /\ normalized_base(call_name) # call_name

\* mesh-bearing nodes named exactly as the query, and those equal to it in
\* the normalized comparison
exact_meshes(name) ==
    { o \in DOMAIN scene : scene[o].type = "MESH" /\ scene[o].name = name }

normalized_meshes(name) ==
    { o \in DOMAIN scene :
        /\ scene[o].type = "MESH"
        /\ scene_normalized(scene[o].name) = scene_normalized(name) }

\* C22: the resolver returns the node named exactly as the query whenever
\* that node is mesh-bearing; a node that is not mesh-bearing is never
\* returned, and a query whose exact namesake is not mesh-bearing falls
\* through to the normalized comparison over mesh-bearing nodes; NotFound is
\* returned only when neither comparison finds a mesh-bearing node.
C22_ResolveMeshOnly ==
    resolved_done =>
        \A n \in dict_keyset(export_structure_names) :
            /\ exact_meshes(n) # {} =>
                   dict_has(found_objects, n) /\ found_object(n) \in exact_meshes(n)
            /\ dict_has(found_objects, n) =>
                   /\ scene[found_object(n)].type = "MESH"
                   /\ found_object(n) \in exact_meshes(n) \cup normalized_meshes(n)
            /\ (exact_meshes(n) = {} /\ normalized_meshes(n) # {}) =>
                   dict_has(found_objects, n) /\ found_object(n) \in normalized_meshes(n)
            /\ n \in seq_set(missing_names) <=>
                   (exact_meshes(n) = {} /\ normalized_meshes(n) = {})
            /\ n \in seq_set(missing_names) <=> ~dict_has(found_objects, n)

\* C22 witness: a query whose exact namesake is not mesh-bearing was resolved
\* to a mesh-bearing node through the normalized comparison, while another
\* query was resolved to its exact namesake.
C22_Witness ==
    /\ resolved_done
    /\ \E n \in dict_keyset(found_objects) :
           /\ \E o \in DOMAIN scene : scene[o].name = n /\ scene[o].type # "MESH"
           /\ scene[found_object(n)].name # n
    /\ \E n \in dict_keyset(found_objects) : scene[found_object(n)].name = n
    /\ missing_names # << >>

\* both names after lowercasing and collapsing every run of punctuation and
\* whitespace to one separator
collapsed_equal(a, b) ==
    collapse_underscores(separators_replaced(str_lower(a))) =
        collapse_underscores(separators_replaced(str_lower(b)))

\* C23: when no mesh-bearing node is named exactly as the query, the resolver
\* returns a mesh-bearing node whenever the query and the node name are equal
\* after lowercasing and collapsing every run of punctuation and whitespace
\* to a single separator.
C23_CollapsedNamesResolve ==
    pc = "call" =>
        \A r \in call_log.found :
            ( /\ exact_meshes(call_name) = {}
              /\ \E o \in DOMAIN scene :
                     scene[o].type = "MESH" /\ collapsed_equal(scene[o].name, call_name) ) =>
                /\ r # 0
                /\ collapsed_equal(scene[r].name, call_name)

is_metadata_key(key) == key # << >> /\ key[1] = "_"

\* the three accepted shapes of a region value
is_plain_list(data) == data.kind = "list"

is_structures_object(data) ==
    data.kind = "dict" /\ data.structs # None /\ data.structs_kind = "list"

is_name_keyed_object(data) ==
    data.kind = "dict" /\ data.structs = None /\ ~data.has_description

is_accepted_shape(data) ==
    is_plain_list(data) \/ is_structures_object(data) \/ is_name_keyed_object(data)

\* the names a region lists
listed_names(data) ==
    IF is_structures_object(data) THEN seq_set(data.structs[1])
    ELSE IF is_plain_list(data) \/ is_name_keyed_object(data) THEN seq_set(data.items)
    ELSE {}

structure_regions == { i \in DOMAIN registry : ~is_metadata_key(registry[i].key) }

well_formed_registry == \A i \in structure_regions : is_accepted_shape(registry[i])

\* C24 (as stated): every name listed in a region of one of the three
\* accepted shapes maps to that region, and no name listed under a key that
\* starts with '_' is in the mapping.
C24_EveryListedNameToItsRegion ==
    (pc = "call" /\ well_formed_registry) =>
        \A res \in call_log.names :
            /\ ~res.raised
            /\ \A i \in structure_regions :
                   \A n \in listed_names(registry[i]) :
                       dict_get(res.structures, n) = << registry[i].key >>
            /\ \A i \in DOMAIN registry \ structure_regions :
                   \A n \in listed_names(registry[i]) :
                       ~dict_has(res.structures, n)

\* C24 (amended): the mapping holds exactly the names listed in the regions
\* whose key does not start with '_', whatever their shape of the three, and
\* each name maps to the last such region that lists it; a region whose key
\* starts with '_' contributes nothing.
C24_ListedNamesOfStructureRegions ==
    (pc = "call" /\ well_formed_registry) =>
        \A res \in call_log.names :
            /\ ~res.raised
            /\ dict_keyset(res.structures) =
                   UNION { listed_names(registry[i]) : i \in structure_regions }
            /\ \A n \in dict_keyset(res.structures) :
                   \E i \in structure_regions :
                       /\ n \in listed_names(registry[i])
                       /\ dict_get(res.structures, n) = << registry[i].key >>
                       /\ \A j \in structure_regions :
                              n \in listed_names(registry[j]) => j <= i

\* C24 witness: a file with a '_' region that lists names and an object keyed
\* by names was loaded into a non-empty mapping.
C24_Witness ==
    /\ pc = "call"
    /\ well_formed_registry
    /\ \E i \in DOMAIN registry :
           is_metadata_key(registry[i].key) /\ listed_names(registry[i]) # {}
    /\ \E i \in structure_regions : is_name_keyed_object(registry[i])
    /\ \E res \in call_log.names : res.structures # << >>

\* C25: a region of malformed shape is skipped: the load never aborts
\* because of it, the region contributes no names, and the names of every
\* well-formed region are still returned.
C25_MalformedRegionSkipped ==
    pc = "call" =>
        \A res \in call_log.names :
            /\ ~res.raised
            /\ dict_keyset(res.structures) =
                   UNION { listed_names(registry[i]) :
                             i \in { j \in structure_regions :
                                       is_accepted_shape(registry[j]) } }

snapshot_translation(i) ==
    dict_get(precomputed_transforms, processed[i].name)[1].matrix

baked_error2(i) == VLen2(VSub(processed[i].baked, snapshot_translation(i)))

\* C26: for every structure handled by process_standard_object the world
\* translation baked into the copy is within the tolerance of the snapshot
\* translation: it is the snapshot translation on the corrective path and
\* the node's current translation, itself within the tolerance, on the
\* standard path, whatever earlier structures did to the hierarchy.
C26_BakedWithinTolerance ==
    \A i \in exported_steps :
        processed[i].path \in { "standard", "corrective" } =>
            /\ dict_has(precomputed_transforms, processed[i].name)
            /\ baked_error2(i) <= Tolerance * Tolerance
            /\ processed[i].path = "corrective" => baked_error2(i) = 0
            /\ processed[i].path = "standard" =>
                   /\ processed[i].baked = processed[i].current_pos
                   /\ step_diff2(i) <= Tolerance * Tolerance

\* C26 witness: after an earlier structure was processed, one copy was baked
\* at its drifted but tolerated current translation and another at its
\* snapshot translation although its current translation had moved further.
C26_Witness ==
    /\ \E i \in exported_steps :
           /\ i > 1
           /\ processed[i].path = "standard"
           /\ baked_error2(i) > 0
    /\ \E i \in exported_steps :
           /\ i > 1
           /\ processed[i].path = "corrective"
           /\ processed[i].current_pos # processed[i].baked

failed_steps == { i \in DOMAIN processed : processed[i].outcome = "failed" }

\* C27: in every returned report total_in_registry = found_in_blender +
\* |missing| + |skipped_right|, and exported = bilateral + midline + orphan
\* structures = found_in_blender minus the failed structures, so that
\* exported <= found_in_blender <= total_in_registry.
C27_ReportCountsConsistent ==
    report # None =>
        LET r == report[1] IN
        /\ r.total_in_registry = Cardinality(registry_names)
        /\ r.total_in_registry =
               r.found_in_blender + Len(r.missing) + Len(r.skipped_right)
        /\ r.bilateral_count = stats.bilateral
        /\ r.midline_count = stats.midline
        /\ r.exported = stats.bilateral + stats.midline + stats.orphan
        /\ stats.failed = Cardinality(failed_steps)
        /\ r.exported = r.found_in_blender - stats.failed
        /\ r.exported = Cardinality(exported_steps)
        /\ r.exported <= r.found_in_blender
        /\ r.found_in_blender <= r.total_in_registry

\* C27 witness: a report was returned by a run with a missing name, a failed
\* structure and an exported one-sided structure.
C27_Witness ==
    /\ report # None
    /\ report[1].missing # << >>
    /\ stats.failed > 0
    /\ stats.orphan > 0
    /\ report[1].exported < report[1].found_in_blender

\* the world translation of the original behind a found name, as the host
\* evaluates it now
live_translation(name) == matrix_world(scene, drift, found_object(name))

C29_NoNodeResolvedTwice ==
    /\ \A i, j \in DOMAIN found_objects :
           i # j => found_objects[i].val # found_objects[j].val
    /\ \A i, j \in DOMAIN export_objects :
           i # j => export_objects[i].original # export_objects[j].original

\* C30: at the end of the per-structure loop the copies handed to the
\* exporter and the metadata records are in one-to-one correspondence, also
\* when some structures failed: there are as many copies as records, each
\* copy is named with the meshId of exactly one record, and every issued id
\* belongs to a record.
C30_CopiesMatchRecords ==
    pc \in { "process", "done", "aborted" } =>
        /\ Len(export_objects) = Len(structures)
        /\ \A k \in DOMAIN export_objects :
               Cardinality({ r \in DOMAIN records :
                               records[r].meshId = export_objects[k].name }) = 1
        /\ \A r \in DOMAIN records :
               /\ dict_keys(structures)[r] = records[r].meshId
               /\ Cardinality({ k \in DOMAIN export_objects :
                                  export_objects[k].name = records[r].meshId }) = 1
        /\ used_ids = { records[r].meshId : r \in DOMAIN records }

\* C30 witness: the loop ended with a failed structure between two exported
\* ones, one of which took a suffixed id.
C30_Witness ==
    /\ pc = "done"
    /\ \E i, j, k \in DOMAIN processed :
           /\ i < j /\ j < k
           /\ processed[i].outcome = "exported"
           /\ processed[j].outcome = "failed"
           /\ processed[k].outcome = "exported"
    /\ \E i \in exported_steps : processed[i].mesh_id # processed[i].base_id

====
